---- MODULE Spec2Model ----
(***************************************************************************)
(* EventSearchRepository: the layer between the relay's events / search    *)
(* filters and the MeiliSearch index "events".                             *)
(*                                                                         *)
(* Optional JavaScript values are records [tag, val]: tag is "undefined",  *)
(* "null" or the type of val.  A filter clause, a template string in the   *)
(* source, is the record of its parts: the attribute, the operator, and    *)
(* the operands in the order join(', ') lists them (numbers in nums,       *)
(* strings in strs).  The operands are ids, kinds, pubkeys and tag strings *)
(* without separators, so the list is what the engine parses back.         *)
(***************************************************************************)
EXTENDS Integers, Sequences, FiniteSets, TLC

VARIABLES
    host,            \* configService.get('meiliSearch').host
    apiKey,          \* configService.get('meiliSearch').apiKey
    syncEventKinds,  \* this.syncEventKinds
    index,           \* this.index is defined
    lifecycle,       \* "constructed", "running" or "failed" (bootstrap threw)
    now,             \* getTimestampInSeconds()
    documents,       \* the documents of the engine's index "events"
    engineContacted, \* an engine call was issued since construction
    opName,          \* the public operation in progress or last completed
    opArg,           \* its arguments
    opTime,          \* the time at which it was called
    pc,              \* "idle", "awaiting" (engine calls in flight) or "done"
    outcome,         \* "pending", "returned" or "threw"
    result,          \* the value it resolved with
    issued,          \* the engine calls it issued, in order
    pending,         \* its engine calls in flight
    settled,         \* its engine calls that settled, in order, with outcome
    logged,          \* logger.error calls it made
    searchFilters    \* the clause list buildSearchFilters returned last

vars == <<host, apiKey, syncEventKinds, index, lifecycle, now, documents,
          engineContacted, opName, opArg, opTime, pc, outcome, result, issued,
          pending, settled, logged, searchFilters>>

(***************************************************************************)
(* Bounds of the model.                                                    *)
(***************************************************************************)
MaxTime == 2
MaxGroups == 2
MaxGroupLen == 2

(***************************************************************************)
(* JavaScript values.                                                      *)
(***************************************************************************)
UndefinedNum == [tag |-> "undefined", val |-> 0]
NullNum == [tag |-> "null", val |-> 0]
Num(n) == [tag |-> "number", val |-> n]
UndefinedStr == [tag |-> "undefined", val |-> ""]
NullStr == [tag |-> "null", val |-> ""]
Str(s) == [tag |-> "string", val |-> s]
UndefinedArr == [tag |-> "undefined", val |-> <<>>]
Arr(s) == [tag |-> "array", val |-> s]

Range(s) == {s[i] : i \in 1..Len(s)}
Min(a, b) == IF a <= b THEN a ELSE b

\* lodash isNil
isNil(v) == v.tag \in {"undefined", "null"}
\* if (x) on a number | undefined
TruthyNum(v) == v.tag = "number" /\ v.val # 0
\* if (x) on a string | undefined
TruthyStr(v) == v.tag = "string" /\ v.val # ""
\* x?.length as a condition
HasLength(a) == a.tag = "array" /\ Len(a.val) > 0
\* Array.prototype.includes
includes(s, x) == \E i \in 1..Len(s) : s[i] = x

(***************************************************************************)
(* Events.  tags and sig are carried through unread and are left out.      *)
(***************************************************************************)
TEXT_NOTE == 1
ENCRYPTED_DIRECT_MESSAGE == 4
PARAMETERIZED_REPLACEABLE_FIRST == 30000

EventIds == {"e1", "e2", "e3", "e4"}

EventOf(id) ==
    CASE id = "e1" -> [id |-> "e1", pubkey |-> "p1", author |-> "p1", createdAt |-> 1,
                       kind |-> TEXT_NOTE, genericTags |-> <<"t:x">>, content |-> "hello",
                       expiredAt |-> NullNum, dTagValue |-> NullStr]
      [] id = "e2" -> [id |-> "e2", pubkey |-> "p2", author |-> "p2", createdAt |-> 2,
                       kind |-> TEXT_NOTE, genericTags |-> <<"t:x", "t:y">>, content |-> "hello",
                       expiredAt |-> Num(1), dTagValue |-> NullStr]
      [] id = "e3" -> [id |-> "e3", pubkey |-> "p1", author |-> "p1", createdAt |-> 3,
                       kind |-> ENCRYPTED_DIRECT_MESSAGE, genericTags |-> <<>>, content |-> "secret",
                       expiredAt |-> NullNum, dTagValue |-> NullStr]
      [] OTHER     -> [id |-> "e4", pubkey |-> "p1", author |-> "p2", createdAt |-> 4,
                       kind |-> PARAMETERIZED_REPLACEABLE_FIRST, genericTags |-> <<"d:d1", "t:y">>,
                       content |-> "", expiredAt |-> Num(2), dTagValue |-> Str("d1")]

toEventDocument(event) ==
    [id |-> event.id, pubkey |-> event.pubkey, createdAt |-> event.createdAt,
     kind |-> event.kind, genericTags |-> event.genericTags, content |-> event.content,
     expiredAt |-> event.expiredAt, author |-> event.author, dTagValue |-> event.dTagValue]

toEvent(eventDocument) ==
    [id |-> eventDocument.id, pubkey |-> eventDocument.pubkey,
     createdAt |-> eventDocument.createdAt, kind |-> eventDocument.kind,
     content |-> eventDocument.content, expiredAt |-> eventDocument.expiredAt,
     genericTags |-> eventDocument.genericTags, dTagValue |-> eventDocument.dTagValue,
     author |-> eventDocument.author]

(***************************************************************************)
(* Filter clauses.                                                         *)
(***************************************************************************)
Clause(attr, op, nums, strs) == [attr |-> attr, op |-> op, nums |-> nums, strs |-> strs]

\* `expiredAt IS NULL OR expiredAt >= ${getTimestampInSeconds()}`
expiredAtClauseDropped(t) == <<>>
expiredAtClause(t) == <<Clause("expiredAt", "IS NULL OR >=", <<t>>, <<>>)>>

\* if (filter.ids?.length) push `id IN [...]`
idsClauseUnguarded(filter) == <<Clause("id", "IN", <<>>, filter.ids.val)>>
idsClause(filter) ==
    IF HasLength(filter.ids) THEN <<Clause("id", "IN", <<>>, filter.ids.val)>> ELSE <<>>

\* if (filter.kinds?.length) push `kind IN [...]`
kindsClause(filter) ==
    IF HasLength(filter.kinds) THEN <<Clause("kind", "IN", filter.kinds.val, <<>>)>> ELSE <<>>

\* if (filter.since) push `createdAt >= ${filter.since}`
sinceClause(filter) ==
    IF TruthyNum(filter.since)
    THEN <<Clause("createdAt", ">=", <<filter.since.val>>, <<>>)>> ELSE <<>>

\* if (filter.until) push `createdAt <= ${filter.until}`
untilClause(filter) ==
    IF TruthyNum(filter.until)
    THEN <<Clause("createdAt", "<=", <<filter.until.val>>, <<>>)>> ELSE <<>>

\* if (filter.authors?.length) push `author IN [...]`
authorsClause(filter) ==
    IF HasLength(filter.authors)
    THEN <<Clause("author", "IN", <<>>, filter.authors.val)>> ELSE <<>>

\* if (filter.genericTagsCollection?.length) forEach group push `genericTags IN [...]`
genericTagsClausesReversed(filter) ==
    LET c == filter.genericTagsCollection IN
    IF HasLength(c)
    THEN [i \in 1..Len(c.val) |->
             Clause("genericTags", "IN", <<>>, c.val[Len(c.val) + 1 - i])]
    ELSE <<>>
genericTagsClauses(filter) ==
    LET c == filter.genericTagsCollection IN
    IF HasLength(c)
    THEN [i \in 1..Len(c.val) |-> Clause("genericTags", "IN", <<>>, c.val[i])]
    ELSE <<>>

\* if (filter.dTagValues?.length) push `dTagValue IN [...]`
dTagValuesClause(filter) ==
    IF HasLength(filter.dTagValues)
    THEN <<Clause("dTagValue", "IN", <<>>, filter.dTagValues.val)>> ELSE <<>>

buildSearchFilters(filter, t) ==
    expiredAtClause(t) \o idsClause(filter) \o kindsClause(filter)
        \o sinceClause(filter) \o untilClause(filter) \o authorsClause(filter)
        \o genericTagsClauses(filter) \o dTagValuesClause(filter)

DefaultLimit == 100
MaxLimit == 1000

getLimitFromUncapped(filter) == IF isNil(filter.limit) THEN DefaultLimit ELSE filter.limit.val
getLimitFrom(filter) ==
    Min(IF isNil(filter.limit) THEN DefaultLimit ELSE filter.limit.val, MaxLimit)

(***************************************************************************)
(* The engine behind this.index: the calls the layer makes and what the    *)
(* engine does with them.  A call is a record of its name and arguments.   *)
(***************************************************************************)
Call(api, docs, ids, q, limit, filter, sort, showRankingScore) ==
    [api |-> api, documents |-> docs, ids |-> ids, q |-> q, limit |-> limit,
     filter |-> filter, sort |-> sort, showRankingScore |-> showRankingScore]

UpdateSettings == Call("updateSettings", <<>>, <<>>, "", 0, <<>>, <<>>, FALSE)
AddDocuments(docs) == Call("addDocuments", docs, <<>>, "", 0, <<>>, <<>>, FALSE)
DeleteDocuments(ids) == Call("deleteDocuments", <<>>, ids, "", 0, <<>>, <<>>, FALSE)
Search(q, limit, filter, sort, showRankingScore) ==
    Call("search", <<>>, <<>>, q, limit, filter, sort, showRankingScore)

\* one clause of the filter array, evaluated on a document
Matches(doc, c) ==
    CASE c.attr = "expiredAt" -> doc.expiredAt.tag = "null" \/ doc.expiredAt.val >= c.nums[1]
      [] c.attr = "id" -> doc.id \in Range(c.strs)
      [] c.attr = "kind" -> doc.kind \in Range(c.nums)
      [] c.attr = "createdAt" ->
            IF c.op = ">=" THEN doc.createdAt >= c.nums[1] ELSE doc.createdAt <= c.nums[1]
      [] c.attr = "author" -> doc.author \in Range(c.strs)
      [] c.attr = "genericTags" -> Range(doc.genericTags) \cap Range(c.strs) # {}
      [] OTHER -> doc.dTagValue.tag = "string" /\ doc.dTagValue.val \in Range(c.strs)

\* the free-text query on the searchable attribute content; "" matches all
TextMatches(doc, q) == q = "" \/ doc.content = q

RECURSIVE SortByCreatedAtDesc(_)
SortByCreatedAtDesc(S) ==
    IF S = {} THEN <<>>
    ELSE LET d == CHOOSE x \in S : \A y \in S : y.createdAt <= x.createdAt
         IN  <<d>> \o SortByCreatedAtDesc(S \ {d})

\* the hits of a search call: the elements of the filter array are a
\* conjunction; sort and the last ranking rule are createdAt:desc
SearchHits(docs, c) ==
    LET matching == {d \in docs : /\ TextMatches(d, c.q)
                                  /\ \A i \in 1..Len(c.filter) : Matches(d, c.filter[i])}
        sorted == SortByCreatedAtDesc(matching)
    IN  SubSeq(sorted, 1, Min(c.limit, Len(sorted)))

\* the index after the engine carried out a call
Apply(docs, c) ==
    CASE c.api = "addDocuments" ->
            {d \in docs : \A i \in 1..Len(c.documents) : d.id # c.documents[i].id}
                \cup Range(c.documents)
      [] c.api = "deleteDocuments" -> {d \in docs : d.id \notin Range(c.ids)}
      [] OTHER -> docs

(***************************************************************************)
(* The public operations: the engine calls each one issues before its      *)
(* first await.                                                            *)
(***************************************************************************)
\* if (!host || !apiKey) return; this.index = ...
constructorHostOnly(h, k) == TruthyStr(h)
constructor(h, k) == TruthyStr(h) /\ TruthyStr(k)

onApplicationBootstrap == IF ~index THEN <<>> ELSE <<UpdateSettings>>

findNoShortCircuit(filter, t) ==
    IF ~index THEN <<>>
    ELSE <<Search(filter.search, getLimitFrom(filter), buildSearchFilters(filter, t),
                  <<"createdAt:desc">>, FALSE)>>
find(filter, t) ==
    IF ~index THEN <<>>
    ELSE LET limit == getLimitFrom(filter) IN
         IF limit = 0 THEN <<>>
         ELSE <<Search(filter.search, limit, buildSearchFilters(filter, t),
                       <<"createdAt:desc">>, FALSE)>>

findTopIdsWithScore(filter, t) ==
    IF ~index THEN <<>>
    ELSE LET limit == getLimitFrom(filter) IN
         IF limit = 0 THEN <<>>
         ELSE <<Search(filter.search, limit, buildSearchFilters(filter, t), <<>>, TRUE)>>

addUngated(event) ==
    IF ~index THEN <<>> ELSE <<AddDocuments(<<toEventDocument(event)>>)>>
add(event) ==
    IF ~index \/ ~includes(syncEventKinds, event.kind) THEN <<>>
    ELSE <<AddDocuments(<<toEventDocument(event)>>)>>

deleteMany(eventIds) == IF ~index THEN <<>> ELSE <<DeleteDocuments(eventIds)>>

replaceDeleteGatedByAdd(event, oldEventId) ==
    IF ~index THEN <<>>
    ELSE add(event) \o
         (IF TruthyStr(oldEventId) /\ add(event) # <<>>
          THEN deleteMany(<<oldEventId.val>>) ELSE <<>>)
replace(event, oldEventId) ==
    IF ~index THEN <<>>
    ELSE add(event) \o
         (IF TruthyStr(oldEventId) THEN deleteMany(<<oldEventId.val>>) ELSE <<>>)

\* try { await this.index.<call> } catch (error) { this.logger.error(error) }
CatchesAll(api) == TRUE
Catches(api) == api \in {"addDocuments", "deleteDocuments"}

\* hit => { id: hit.id, score: hit.createdAt * (1 + (hit._rankingScore ?? 0)) }
Score(hit, rankingScore) ==
    [id |-> hit.id,
     score |-> hit.createdAt * (1 + (IF isNil(rankingScore) THEN 0 ELSE rankingScore.val))]

\* what the operation resolves with once its engine calls succeeded
Resolved(name, hits, rankingScore) ==
    CASE name = "find" -> [i \in 1..Len(hits) |-> toEvent(hits[i])]
      [] name = "findTopIdsWithScore" -> [i \in 1..Len(hits) |-> Score(hits[i], rankingScore)]
      [] OTHER -> <<>>

(***************************************************************************)
(* Inputs.                                                                 *)
(***************************************************************************)
HostValues == {UndefinedStr, Str(""), Str("http://meili:7700")}
ApiKeyValues == {UndefinedStr, Str(""), Str("key")}
SyncEventKindsValues ==
    {<<>>, <<TEXT_NOTE>>, <<TEXT_NOTE, PARAMETERIZED_REPLACEABLE_FIRST>>}

BaseFilter ==
    [ids |-> UndefinedArr, authors |-> UndefinedArr, dTagValues |-> UndefinedArr,
     genericTagsCollection |-> UndefinedArr, kinds |-> UndefinedArr,
     limit |-> UndefinedNum, search |-> "", since |-> UndefinedNum, until |-> UndefinedNum]

FilterShapes ==
    {BaseFilter,
     [BaseFilter EXCEPT !.ids = Arr(<<"e2", "e1">>)],
     [BaseFilter EXCEPT !.kinds = Arr(<<TEXT_NOTE>>)],
     [BaseFilter EXCEPT !.since = Num(2)],
     [BaseFilter EXCEPT !.until = Num(2)],
     [BaseFilter EXCEPT !.authors = Arr(<<"p2">>)],
     [BaseFilter EXCEPT !.genericTagsCollection = Arr(<< <<"t:x">>, <<"t:y", "d:d1">> >>)],
     [BaseFilter EXCEPT !.genericTagsCollection = Arr(<< <<>> >>)],
     [BaseFilter EXCEPT !.dTagValues = Arr(<<"d1">>)],
     [BaseFilter EXCEPT !.search = "hello"],
     [BaseFilter EXCEPT !.ids = Arr(<<"e1", "e2", "e4">>),
                        !.kinds = Arr(<<TEXT_NOTE, PARAMETERIZED_REPLACEABLE_FIRST>>),
                        !.since = Num(1), !.until = Num(4), !.authors = Arr(<<"p1", "p2">>),
                        !.genericTagsCollection = Arr(<< <<"t:x", "t:y">> >>)],
     [BaseFilter EXCEPT !.ids = Arr(<<>>), !.kinds = Arr(<<>>), !.since = Num(0),
                        !.until = Num(0), !.authors = Arr(<<>>),
                        !.genericTagsCollection = Arr(<<>>), !.dTagValues = Arr(<<>>)]}

LimitValues ==
    {UndefinedNum, NullNum, Num(-1), Num(0), Num(1), Num(2), Num(MaxLimit), Num(MaxLimit + 1)}

FindFilters == {[f EXCEPT !.limit = l] : f \in FilterShapes, l \in LimitValues}

DeleteIdLists == {<<>>, <<"e1", "e2">>} \cup {<<i>> : i \in EventIds}

OldEventIds == {UndefinedStr, Str("")} \cup {Str(i) : i \in EventIds}

RankingScores(c) ==
    IF c.api = "search" /\ c.showRankingScore THEN {UndefinedNum, Num(0), Num(1)}
    ELSE {UndefinedNum}

NoArg == [event |-> "", oldEventId |-> UndefinedStr, eventIds |-> <<>>, filter |-> BaseFilter]

(***************************************************************************)
(* The state machine.                                                      *)
(***************************************************************************)
Init ==
    /\ host \in HostValues
    /\ apiKey \in ApiKeyValues
    /\ syncEventKinds \in SyncEventKindsValues
    /\ index = constructor(host, apiKey)
    /\ lifecycle = "constructed"
    /\ now = 0
    /\ documents = {}
    /\ engineContacted = FALSE
    /\ opName = ""
    /\ opArg = NoArg
    /\ opTime = 0
    /\ pc = "idle"
    /\ outcome = "returned"
    /\ result = <<>>
    /\ issued = <<>>
    /\ pending = {}
    /\ settled = <<>>
    /\ logged = 0
    /\ searchFilters = <<>>

config == <<host, apiKey, syncEventKinds, index>>

\* a public operation is called and runs to its first await, or to its end
Begin(name, arg, calls) ==
    /\ pc = "idle"
    /\ opName' = name
    /\ opArg' = arg
    /\ opTime' = now
    /\ issued' = calls
    /\ pending' = Range(calls)
    /\ settled' = <<>>
    /\ logged' = 0
    /\ result' = <<>>
    /\ engineContacted' = (engineContacted \/ calls # <<>>)
    /\ pc' = IF calls = <<>> THEN "done" ELSE "awaiting"
    /\ outcome' = IF calls = <<>> THEN "returned" ELSE "pending"
    /\ searchFilters' =
          IF calls # <<>> /\ calls[1].api = "search" THEN calls[1].filter ELSE searchFilters
    /\ UNCHANGED <<config, now, documents>>

Tick ==
    /\ now < MaxTime
    /\ now' = now + 1
    /\ UNCHANGED <<config, lifecycle, documents, engineContacted, opName, opArg, opTime, pc,
                   outcome, result, issued, pending, settled, logged, searchFilters>>

Bootstrap ==
    /\ lifecycle = "constructed"
    /\ Begin("onApplicationBootstrap", NoArg, onApplicationBootstrap)
    /\ lifecycle' = IF onApplicationBootstrap = <<>> THEN "running" ELSE lifecycle

Find(filter) ==
    /\ lifecycle = "running"
    /\ Begin("find", [NoArg EXCEPT !.filter = filter], find(filter, now))
    /\ UNCHANGED lifecycle

FindTopIdsWithScore(filter) ==
    /\ lifecycle = "running"
    /\ Begin("findTopIdsWithScore", [NoArg EXCEPT !.filter = filter],
             findTopIdsWithScore(filter, now))
    /\ UNCHANGED lifecycle

Add(id) ==
    /\ lifecycle = "running"
    /\ Begin("add", [NoArg EXCEPT !.event = id], add(EventOf(id)))
    /\ UNCHANGED lifecycle

DeleteMany(eventIds) ==
    /\ lifecycle = "running"
    /\ Begin("deleteMany", [NoArg EXCEPT !.eventIds = eventIds], deleteMany(eventIds))
    /\ UNCHANGED lifecycle

Replace(id, oldEventId) ==
    /\ lifecycle = "running"
    /\ Begin("replace", [NoArg EXCEPT !.event = id, !.oldEventId = oldEventId],
             replace(EventOf(id), oldEventId))
    /\ UNCHANGED lifecycle

\* an engine call of the operation settles; the operation continues past
\* its await: a caught failure is logged, an uncaught one rejects the
\* operation at once, and the operation resolves when nothing is in flight
Settle(c, ok, value) ==
    LET caught == ~ok /\ Catches(c.api)
        thrown == ~ok /\ ~Catches(c.api)
        rest == pending \ {c}
    IN  /\ pending' = rest
        /\ settled' = Append(settled, [api |-> c.api, ok |-> ok])
        /\ logged' = IF caught THEN logged + 1 ELSE logged
        /\ IF pc = "awaiting" /\ (thrown \/ rest = {})
           THEN /\ pc' = "done"
                /\ outcome' = IF thrown THEN "threw" ELSE "returned"
                /\ result' = IF ok THEN value ELSE <<>>
                /\ lifecycle' = IF opName = "onApplicationBootstrap"
                                THEN (IF thrown THEN "failed" ELSE "running")
                                ELSE lifecycle
           ELSE UNCHANGED <<pc, outcome, result, lifecycle>>
        /\ UNCHANGED <<config, now, engineContacted, opName, opArg, opTime, issued, searchFilters>>

\* the engine carries out the call and answers
EngineOk(c) ==
    /\ c \in pending
    /\ c.api = "search" => c.limit >= 0
    /\ documents' = Apply(documents, c)
    /\ \E r \in RankingScores(c) :
          Settle(c, TRUE, Resolved(opName, IF c.api = "search" THEN SearchHits(documents, c)
                                                              ELSE <<>>, r))

\* the call fails: the engine rejects it (a search with a negative limit
\* always), or the connection fails before or after the engine acted on it
EngineFail(c) ==
    /\ c \in pending
    /\ \E applied \in (IF c.api \in {"addDocuments", "deleteDocuments"} THEN BOOLEAN ELSE {FALSE}) :
          documents' = IF applied THEN Apply(documents, c) ELSE documents
    /\ Settle(c, FALSE, <<>>)

\* the caller has the operation's outcome and nothing of it is in flight
Return ==
    /\ pc = "done"
    /\ pending = {}
    /\ pc' = "idle"
    /\ opName' = ""
    /\ opArg' = NoArg
    /\ opTime' = 0
    /\ outcome' = "returned"
    /\ result' = <<>>
    /\ issued' = <<>>
    /\ settled' = <<>>
    /\ logged' = 0
    /\ searchFilters' = <<>>
    /\ UNCHANGED <<config, lifecycle, now, documents, engineContacted, pending>>

Next ==
    \/ Tick
    \/ Return
    \/ Bootstrap
    \/ \E filter \in FindFilters : Find(filter)
    \/ \E filter \in FindFilters : FindTopIdsWithScore(filter)
    \/ \E id \in EventIds : Add(id)
    \/ \E eventIds \in DeleteIdLists : DeleteMany(eventIds)
    \/ \E id \in EventIds, oldEventId \in OldEventIds : Replace(id, oldEventId)
    \/ \E c \in pending : EngineOk(c)
    \/ \E c \in pending : EngineFail(c)

Spec == Init /\ [][Next]_vars

(***************************************************************************)
(* buildSearchFilters on its own: the filter is drawn from every           *)
(* combination of absent, empty and filled constraints with a few          *)
(* collections of tag groups, and from every collection of at most         *)
(* MaxGroups groups of at most MaxGroupLen values with a few shapes of the *)
(* other constraints.                                                      *)
(***************************************************************************)
SeqsUpTo(S, n) == UNION {[1..k -> S] : k \in 0..n}

TagGroups == SeqsUpTo({"t:x", "t:y"}, MaxGroupLen)
TagCollections == {UndefinedArr} \cup {Arr(c) : c \in SeqsUpTo(TagGroups, MaxGroups)}

BuildFilters ==
    {[BaseFilter EXCEPT !.ids = i, !.kinds = k, !.since = s, !.until = u, !.authors = a,
                        !.genericTagsCollection = g, !.dTagValues = d] :
        i \in {UndefinedArr, Arr(<<>>), Arr(<<"e1", "e2">>)},
        k \in {UndefinedArr, Arr(<<>>), Arr(<<TEXT_NOTE, ENCRYPTED_DIRECT_MESSAGE>>)},
        s \in {UndefinedNum, Num(0), Num(100)},
        u \in {UndefinedNum, Num(0), Num(200)},
        a \in {UndefinedArr, Arr(<<>>), Arr(<<"p1">>)},
        g \in {UndefinedArr, Arr(<<>>), Arr(<< <<"t:x">>, <<>> >>)},
        d \in {UndefinedArr, Arr(<<>>), Arr(<<"d1", "d2">>)}}
    \cup
    {[f EXCEPT !.genericTagsCollection = g] :
        f \in {BaseFilter,
               [BaseFilter EXCEPT !.authors = Arr(<<"p1">>), !.dTagValues = Arr(<<"d1">>)],
               [BaseFilter EXCEPT !.ids = Arr(<<"e1">>), !.kinds = Arr(<<TEXT_NOTE>>),
                                  !.since = Num(100), !.until = Num(200),
                                  !.authors = Arr(<<"p1", "p2">>),
                                  !.dTagValues = Arr(<<"d1">>)]},
        g \in TagCollections}

BuildInit ==
    /\ host = Str("http://meili:7700")
    /\ apiKey = Str("key")
    /\ syncEventKinds = <<TEXT_NOTE>>
    /\ index = constructor(host, apiKey)
    /\ lifecycle = "running"
    /\ now \in 0..MaxTime
    /\ documents = {}
    /\ engineContacted = FALSE
    /\ opName = "buildSearchFilters"
    /\ opArg \in {[NoArg EXCEPT !.filter = f] : f \in BuildFilters}
    /\ opTime = now
    /\ pc = "idle"
    /\ outcome = "pending"
    /\ result = <<>>
    /\ issued = <<>>
    /\ pending = {}
    /\ settled = <<>>
    /\ logged = 0
    /\ searchFilters = <<>>

Build ==
    /\ pc = "idle"
    /\ searchFilters' = buildSearchFilters(opArg.filter, now)
    /\ pc' = "done"
    /\ outcome' = "returned"
    /\ UNCHANGED <<config, lifecycle, now, documents, engineContacted, opName, opArg,
                   opTime, result, issued, pending, settled, logged>>

BuildNext == Build

SpecBuild == BuildInit /\ [][BuildNext]_vars

(***************************************************************************)
(* Properties.                                                             *)
(***************************************************************************)
IsRead == opName \in {"find", "findTopIdsWithScore"}
IsWrite == opName \in {"add", "deleteMany", "replace"}
Allowed(id) == \E i \in 1..Len(syncEventKinds) : syncEventKinds[i] = EventOf(id).kind
Indexed(id) == \E d \in documents : d.id = id
Failures == {i \in 1..Len(settled) : ~settled[i].ok}
ClausesOf(attr) == {i \in 1..Len(searchFilters) : searchFilters[i].attr = attr}
RangeClauses(op) ==
    {i \in 1..Len(searchFilters) :
        searchFilters[i].attr = "createdAt" /\ searchFilters[i].op = op}
IsGenericTagsClause(c) == c.attr = "genericTags"
GroupsOf(filter) ==
    IF filter.genericTagsCollection.tag = "array"
    THEN filter.genericTagsCollection.val ELSE <<>>

C2_TimeValidity ==
    (IsRead /\ issued # <<>>)
        => /\ Clause("expiredAt", "IS NULL OR >=", <<opTime>>, <<>>) \in Range(issued[1].filter)
           /\ (pc = "done" /\ outcome = "returned")
                 => \A i \in 1..Len(result) : \A d \in documents :
                       d.id = result[i].id
                           => (d.expiredAt.tag = "null" \/ d.expiredAt.val >= opTime)

C2_Witness ==
    /\ opName = "find"
    /\ pc = "done"
    /\ outcome = "returned"
    /\ \E d \in documents :
          /\ d.expiredAt.tag = "number"
          /\ d.expiredAt.val < opTime
          /\ \A i \in 1..Len(result) : result[i].id # d.id
    /\ result # <<>>

\* C3: find and findTopIdsWithScore of a filter with limit 0 return an
\* empty sequence at once and issue no engine call, whatever the other
\* fields of the filter and the documents of the index.
C3_LimitZero ==
    (IsRead /\ opArg.filter.limit = Num(0))
        => /\ issued = <<>>
           /\ pending = {}
           /\ pc = "done"
           /\ outcome = "returned"
           /\ result = <<>>

C3_Witness ==
    /\ index
    /\ opName = "find"
    /\ opArg.filter.limit = Num(0)
    /\ HasLength(opArg.filter.ids)
    /\ documents # {}
    /\ pc = "done"

\* C4: the limit find and findTopIdsWithScore pass to the engine is
\* min(limit if present else 100, 1000), and no more results than that are
\* returned.
C4_ResolvedLimit ==
    LET l == opArg.filter.limit
        requested == IF l.tag = "number" THEN l.val ELSE 100
        resolved == IF requested > 1000 THEN 1000 ELSE requested
    IN  IsRead =>
          /\ (index /\ resolved # 0) => (Len(issued) = 1 /\ issued[1].limit = resolved)
          /\ (pc = "done" /\ outcome = "returned")
                => (Len(result) <= 1000 /\ (issued # <<>> => Len(result) <= resolved))

C4_Witness ==
    /\ opName = "findTopIdsWithScore"
    /\ opArg.filter.limit = Num(1001)
    /\ issued # <<>>
    /\ issued[1].limit = 1000
    /\ pc = "done"
    /\ outcome = "returned"
    /\ result # <<>>

\* C5: on an enabled layer replace(event, oldId) with an event id as oldId
\* issues the delete of oldId and the add of event (the engine call of the
\* add whenever the kind is allow-listed) before either has settled, and
\* completes, without error, only when every call it issued has settled,
\* whichever of them failed.
C5_ReplaceAttemptsBoth ==
    (index /\ opName = "replace" /\ opArg.oldEventId.val \in EventIds)
        => /\ DeleteDocuments(<<opArg.oldEventId.val>>) \in Range(issued)
           /\ Allowed(opArg.event)
                 => AddDocuments(<<toEventDocument(EventOf(opArg.event))>>) \in Range(issued)
           /\ pc = "done"
                 => /\ outcome = "returned"
                    /\ pending = {}
                    /\ Len(settled) = Len(issued)

C5_Witness ==
    /\ opName = "replace"
    /\ pc = "done"
    /\ settled = <<[api |-> "deleteDocuments", ok |-> FALSE],
                   [api |-> "addDocuments", ok |-> TRUE]>>
    /\ Indexed(opArg.event)

\* C6: add, deleteMany and replace return normally whatever their engine
\* calls did, with one log entry per failed call and no call issued again;
\* find and findTopIdsWithScore throw exactly when their search call failed.
C6_FailurePropagation ==
    pc = "done" =>
        /\ IsWrite
              => /\ outcome = "returned"
                 /\ logged = Cardinality(Failures)
                 /\ Len(settled) = Len(issued)
                 /\ Len(issued) = Cardinality(Range(issued))
                 /\ Len(issued) <= (IF opName = "replace" THEN 2 ELSE 1)
        /\ IsRead
              => /\ (outcome = "threw") <=> (Failures # {})
                 /\ Len(issued) <= 1
                 /\ logged = 0
        /\ (IsRead \/ IsWrite) /\ outcome = "threw" => IsRead

C6_Witness ==
    /\ opName = "find"
    /\ pc = "done"
    /\ outcome = "threw"
    /\ isNil(opArg.filter.limit)
    /\ documents # {}

\* C7: with the host or the api key missing no engine call is ever issued,
\* every operation returns normally, and the reads return an empty
\* sequence.
C7_DisabledNoOp ==
    (~TruthyStr(host) \/ ~TruthyStr(apiKey))
        => /\ ~engineContacted
           /\ issued = <<>>
           /\ pending = {}
           /\ documents = {}
           /\ outcome = "returned"
           /\ logged = 0
           /\ result = <<>>
           /\ lifecycle # "failed"

C7_Witness ==
    /\ TruthyStr(host)
    /\ ~TruthyStr(apiKey)
    /\ lifecycle = "running"
    /\ opName = "replace"
    /\ opArg.oldEventId.val \in EventIds
    /\ pc = "done"

\* C8 as claimed: a clause for ids, kinds, authors, dTagValues or a group
\* of genericTagsCollection is emitted only when that constraint has at
\* least one value, so no clause lists no value.
C8_NoEmptyClause ==
    pc = "done" =>
        \A i \in 1..Len(searchFilters) :
            Len(searchFilters[i].nums) + Len(searchFilters[i].strs) > 0

\* C8 as amended: the clauses for ids, kinds, authors and dTagValues are
\* emitted only when the constraint has at least one value, and
\* genericTags clauses only when genericTagsCollection has at least one
\* group; an empty group of a non-empty collection still gets its clause,
\* which lists no value.
C8_NoEmptyConstraintClause ==
    pc = "done" =>
        LET f == opArg.filter IN
        /\ ClausesOf("id") # {} => HasLength(f.ids)
        /\ ClausesOf("kind") # {} => HasLength(f.kinds)
        /\ ClausesOf("author") # {} => HasLength(f.authors)
        /\ ClausesOf("dTagValue") # {} => HasLength(f.dTagValues)
        /\ ClausesOf("genericTags") # {} => HasLength(f.genericTagsCollection)
        /\ \A i \in 1..Len(searchFilters) :
              Len(searchFilters[i].nums) + Len(searchFilters[i].strs) = 0
                  => /\ searchFilters[i].attr = "genericTags"
                     /\ \E j \in 1..Len(GroupsOf(f)) : GroupsOf(f)[j] = <<>>

C8_Witness ==
    /\ pc = "done"
    /\ opArg.filter.ids = Arr(<<>>)
    /\ opArg.filter.dTagValues = Arr(<<>>)
    /\ opArg.filter.genericTagsCollection = Arr(<< <<"t:x">>, <<>> >>)
    /\ Len(searchFilters) = 3
    /\ searchFilters[3] = Clause("genericTags", "IN", <<>>, <<>>)

\* C9: the clause createdAt >= since is emitted exactly when since is
\* present and createdAt <= until exactly when until is present, for every
\* present value including 0.
C9_RangeClauses ==
    pc = "done" =>
        LET f == opArg.filter IN
        /\ Cardinality(RangeClauses(">=")) = (IF f.since.tag = "number" THEN 1 ELSE 0)
        /\ Cardinality(RangeClauses("<=")) = (IF f.until.tag = "number" THEN 1 ELSE 0)
        /\ \A i \in RangeClauses(">=") : searchFilters[i].nums = <<f.since.val>>
        /\ \A i \in RangeClauses("<=") : searchFilters[i].nums = <<f.until.val>>

\* C10: for a genericTagsCollection of k groups exactly k genericTags
\* clauses are emitted, the i-th listing the values of the i-th group in
\* their order, all of them after the authors clause and before the
\* dTagValue clause.
C10_OneClausePerGroup ==
    pc = "done" =>
        LET groups == GroupsOf(opArg.filter)
            emitted == SelectSeq(searchFilters, IsGenericTagsClause)
        IN  /\ Len(emitted) = Len(groups)
            /\ \A i \in 1..Len(groups) :
                  emitted[i] = Clause("genericTags", "IN", <<>>, groups[i])
            /\ \A i \in ClausesOf("genericTags") :
                  /\ \A j \in ClausesOf("author") : j < i
                  /\ \A j \in ClausesOf("dTagValue") : i < j

C10_Witness ==
    /\ pc = "done"
    /\ Len(GroupsOf(opArg.filter)) = 2
    /\ GroupsOf(opArg.filter)[1] = <<"t:x", "t:y">>
    /\ GroupsOf(opArg.filter)[2] = <<"t:y">>
    /\ ClausesOf("author") # {}
    /\ ClausesOf("dTagValue") # {}
    /\ Cardinality(ClausesOf("genericTags")) = 2

====
